---- MODULE Spec2Model ----
(***************************************************************************)
(* Flashcard generator (src/index.tsx): the generate handler with its one  *)
(* suspension point, the response parser, the flashcard store and its      *)
(* display, file import, CSV export and the theme switcher.                *)
(*                                                                         *)
(* Text is a sequence of one-character strings, so that split, trim, join  *)
(* and CSV quoting are computed character by character as the code does.   *)
(***************************************************************************)
EXTENDS Naturals, Sequences, FiniteSets

\* ------------------------------------------------------------------ bounds

\* Lines in a response text of Spec.
MaxLines == 2
\* generateContent promises alive at once (the code itself never exceeds one;
\* the cap only stops a faulty handler from growing the list without end).
MaxCalls == 2
\* File imports under way at once: FileReaders reading plus pending timers.
MaxImports == 1
\* Characters in a response text of ParseSpec, and of CsvSpec.
MaxRawLen == 8
MaxCsvRawLen == 7

\* ------------------------------------------------------------------- text

NL == "\n"
COLON == ":"
COMMA == ","
DQUOTE == "\""

\* What String.prototype.trim strips (the members that occur in the model's texts).
WhiteSpace == {" ", "\t", "\r", "\n"}

\* All texts over alphabet A of length 0..n.
TextsUpTo(A, n) == UNION {[1..k -> A] : k \in 0..n}

\* The text primitives are functions rather than operators: a function's
\* argument is evaluated once, when it is applied.
Text == Seq(STRING)

\* Index of the first c in s, 0 when there is none (String.prototype.indexOf + 1).
IndexOf[s \in Text, c \in STRING] ==
  IF \E i \in 1..Len(s) : s[i] = c
    THEN CHOOSE i \in 1..Len(s) : s[i] = c /\ \A j \in 1..(i - 1) : s[j] # c
    ELSE 0

\* String.prototype.split(c): the parts between the occurrences of c; a text
\* without c (the empty text too) is its own single part.
Split[s \in Text, c \in STRING] ==
  IF IndexOf[s, c] = 0 THEN <<s>>
  ELSE <<SubSeq(s, 1, IndexOf[s, c] - 1)>>
         \o Split[SubSeq(s, IndexOf[s, c] + 1, Len(s)), c]

\* Array.prototype.join(c).
Join[parts \in Seq(Text), c \in STRING] ==
  IF Len(parts) = 0 THEN <<>>
  ELSE IF Len(parts) = 1 THEN parts[1]
  ELSE parts[1] \o <<c>> \o Join[Tail(parts), c]

\* String.prototype.trim().
TrimStart[s \in Text] ==
  IF Len(s) > 0 /\ s[1] \in WhiteSpace THEN TrimStart[Tail(s)] ELSE s

TrimEnd[s \in Text] ==
  IF Len(s) > 0 /\ s[Len(s)] \in WhiteSpace
    THEN TrimEnd[SubSeq(s, 1, Len(s) - 1)] ELSE s

Trim(s) == TrimEnd[TrimStart[s]]

\* Slice1 gone wrong: only the part after the first colon, as parts[1] would give.
Slice1_SecondOnly(parts) == SubSeq(parts, 2, 2)

\* Array.prototype.slice(1).
Slice1(parts) == SubSeq(parts, 2, Len(parts))

\* -------------------------------------------------------- response parser

Flashcard(t, d) == [term |-> t, definition |-> d]

\* What the .map callback of the response parser makes of the parts of a
\* line: <<card>> for a card, <<>> for null.
CardOfParts[parts \in Seq(Text)] ==
  IF Len(parts) >= 2 /\ Trim(parts[1]) # <<>>
    THEN IF Trim(Join[Slice1(parts), COLON]) # <<>>
           THEN <<Flashcard(Trim(parts[1]), Trim(Join[Slice1(parts), COLON]))>>
           ELSE <<>>
    ELSE <<>>

\* The .map callback of the response parser.
ParseLine(line) == CardOfParts[Split[line, COLON]]

\* .map(...).filter(card => card !== null) over the lines, in order.
ParseLines[lines \in Seq(Text)] ==
  IF Len(lines) = 0 THEN <<>>
  ELSE ParseLine(lines[1]) \o ParseLines[Tail(lines)]

\* responseText.split('\n').map(...).filter(...)
ParseFlashcards(responseText) == ParseLines[Split[responseText, NL]]

\* --------------------------------------------------------------- messages

\* errorMessage.textContent, as the pair <<fixed text, interpolated part>>.
MsgNone == <<"", "">>
MsgEnterTopic == <<"Please enter a topic, URL, or import a file.", "">>
MsgGenerating == <<"Generating flashcards...", "">>
MsgNoValid ==
  <<"No valid flashcards could be generated from the response. Please check the format.", "">>
MsgFailedEmpty ==
  <<"Failed to generate flashcards or received an empty response. Please try again.", "">>
MsgError(detail) == <<"An error occurred: ", detail>>
MsgFileLoaded(name) == <<"File loaded.", name>>
MsgFileError(detail) == <<"Error reading file: ", detail>>
UnknownError == "An unknown error occurred"

\* ------------------------------------------------------------------ inputs

\* Lines a response text of Spec is made of: a pair, a padded pair whose
\* definition holds a colon, a term without definition. (ParseSpec takes every
\* text over its alphabet.)
SampleLines ==
  { <<"a", ":", "b">>,
    <<" ", "c", ":", "d", ":", "e", " ">>,
    <<"x", ":", " ">> }

\* result.text of a fulfilled call: the lines joined by newline (no line: '').
ResponseTexts ==
  {Join[ls, NL] : ls \in UNION {[1..k -> SampleLines] : k \in 0..MaxLines}}

\* error.message of a rejected call ('' stands for a missing message too).
ErrorMessages == {"quota exceeded", ""}

\* What the user types into the topic textarea.
TopicTexts == {<<>>, <<" ">>, <<"a">>}

\* Files the user can pick in the file dialog.
Files == {[name |-> "notes.txt", text |-> <<" ", "a", NL>>]}

\* reader.error?.message
ReadErrors == {"not readable"}

NoTheme == "null"
Themes == {"dark", "light"}

\* ------------------------------------------------------------------- state

VARIABLES
  topicInput,          \* topicInput.value
  generateDisabled,    \* generateButton.disabled
  flashcardsContainer, \* the cards rendered in flashcardsContainer, in order
  errorMessage,        \* errorMessage.textContent
  exportHidden,        \* exportCsvButton.hidden
  currentFlashcards,   \* let currentFlashcards
  calls,               \* generateContent promises whose handler has not finished
  csvOut,              \* the file the last step handed to the browser: <<>> or <<csvContent>>
  prefersDark,         \* prefersDark.matches
  currentTheme,        \* const currentTheme, read from localStorage at load
  dataTheme,           \* the data-theme attribute of the document element
  storedTheme,         \* localStorage 'theme'
  userToggled,         \* whether the theme toggle was ever clicked (history)
  readers,             \* FileReaders still reading, each with its file
  timers               \* pending 3 s timeouts, each with its file's name

vars ==
  <<topicInput, generateDisabled, flashcardsContainer, errorMessage,
    exportHidden, currentFlashcards, calls, csvOut, prefersDark, currentTheme,
    dataTheme, storedTheme, userToggled, readers, timers>>

genVars ==
  <<generateDisabled, flashcardsContainer, exportHidden, currentFlashcards, calls>>
themeVars == <<prefersDark, currentTheme, dataTheme, storedTheme, userToggled>>
fileVars == <<readers, timers>>

Pending == [state |-> "pending", absent |-> FALSE, text |-> <<>>, message |-> ""]
Fulfilled(absent, text) ==
  [state |-> "fulfilled", absent |-> absent, text |-> text, message |-> ""]
Rejected(message) ==
  [state |-> "rejected", absent |-> FALSE, text |-> <<>>, message |-> message]

\* The sequence s without its i-th element.
RemoveAt(s, i) == SubSeq(s, 1, i - 1) \o SubSeq(s, i + 1, Len(s))

SystemTheme(matches) == IF matches THEN "dark" ELSE "light"

\* applyTheme
ApplyTheme(theme) ==
  /\ dataTheme' = theme
  /\ storedTheme' = theme

\* Module load: the theme is applied from localStorage, or from the system
\* preference when nothing is stored (applyTheme stores what it applies).
InitTheme ==
  /\ prefersDark \in BOOLEAN
  /\ currentTheme \in Themes \cup {NoTheme}
  /\ dataTheme = IF currentTheme # NoTheme THEN currentTheme ELSE SystemTheme(prefersDark)
  /\ storedTheme = dataTheme
  /\ userToggled = FALSE

\* The page as loaded: nothing generated, nothing in flight, export hidden.
Init ==
  /\ topicInput = <<>>
  /\ generateDisabled = FALSE
  /\ flashcardsContainer = <<>>
  /\ errorMessage = MsgNone
  /\ exportHidden = TRUE
  /\ currentFlashcards = <<>>
  /\ calls = <<>>
  /\ csvOut = <<>>
  /\ readers = <<>>
  /\ timers = <<>>
  /\ InitTheme

\* ------------------------------------------------------------------ theme

\* themeToggleButton click
ThemeToggle ==
  /\ ApplyTheme(IF dataTheme = "dark" THEN "light" ELSE "dark")
  /\ userToggled' = TRUE
  /\ csvOut' = <<>>
  /\ UNCHANGED <<prefersDark, currentTheme, topicInput, errorMessage, genVars, fileVars>>

\* The system colour scheme changes and the prefersDark 'change' listener runs.
PrefersDarkChange ==
  /\ prefersDark' = ~prefersDark
  /\ IF storedTheme = NoTheme
       THEN ApplyTheme(SystemTheme(prefersDark'))
       ELSE UNCHANGED <<dataTheme, storedTheme>>
  /\ csvOut' = <<>>
  /\ UNCHANGED <<currentTheme, userToggled, topicInput, errorMessage, genVars, fileVars>>

\* ------------------------------------------------------------ topic input

\* The user edits the topic textarea.
TypeTopic ==
  /\ \E t \in TopicTexts : topicInput' = t
  /\ csvOut' = <<>>
  /\ UNCHANGED <<errorMessage, genVars, themeVars, fileVars>>

\* ------------------------------------------------------------ file import

\* fileInput change with a file chosen: a FileReader starts reading it.
FileChange ==
  /\ Len(readers) + Len(timers) < MaxImports
  /\ \E file \in Files : readers' = Append(readers, file)
  /\ csvOut' = <<>>
  /\ UNCHANGED <<topicInput, errorMessage, timers, genVars, themeVars>>

\* fileInput change with no file chosen: the handler returns at once.
FileChangeNoFile ==
  /\ csvOut' = <<>>
  /\ UNCHANGED <<topicInput, errorMessage, genVars, themeVars, fileVars>>

\* reader.onload: the text becomes the topic, and a timer is set.
ReaderLoad(i) ==
  /\ i \in 1..Len(readers)
  /\ topicInput' = readers[i].text
  /\ errorMessage' = MsgFileLoaded(readers[i].name)
  /\ timers' = Append(timers, readers[i].name)
  /\ readers' = RemoveAt(readers, i)
  /\ csvOut' = <<>>
  /\ UNCHANGED <<genVars, themeVars>>

\* reader.onerror
ReaderError(i) ==
  /\ i \in 1..Len(readers)
  /\ \E detail \in ReadErrors : errorMessage' = MsgFileError(detail)
  /\ readers' = RemoveAt(readers, i)
  /\ csvOut' = <<>>
  /\ UNCHANGED <<topicInput, timers, genVars, themeVars>>

\* The 3 s timeout set by reader.onload fires.
TimerFire(i) ==
  /\ i \in 1..Len(timers)
  /\ errorMessage' =
       IF errorMessage = MsgFileLoaded(timers[i]) THEN MsgNone ELSE errorMessage
  /\ timers' = RemoveAt(timers, i)
  /\ csvOut' = <<>>
  /\ UNCHANGED <<topicInput, readers, genVars, themeVars>>

\* ------------------------------------------------------------- CSV export

\* field.replace(/"/g, '""')
RECURSIVE DoubleQuotes(_)
DoubleQuotes(field) ==
  IF Len(field) = 0 THEN <<>>
  ELSE (IF field[1] = DQUOTE THEN <<DQUOTE, DQUOTE>> ELSE <<field[1]>>)
         \o DoubleQuotes(Tail(field))

\* EscapeCsvField gone wrong: the field is wrapped, its double quotes not doubled.
EscapeCsvField_NoDoubling(field) ==
  IF \E i \in 1..Len(field) : field[i] \in {DQUOTE, COMMA, NL}
    THEN <<DQUOTE>> \o field \o <<DQUOTE>>
    ELSE field

\* escapeCsvField
EscapeCsvField(field) ==
  IF \E i \in 1..Len(field) : field[i] \in {DQUOTE, COMMA, NL}
    THEN <<DQUOTE>> \o DoubleQuotes(field) \o <<DQUOTE>>
    ELSE field

\* const csvHeader = 'Term,Definition\n'
CsvHeader ==
  <<"T", "e", "r", "m", ",", "D", "e", "f", "i", "n", "i", "t", "i", "o", "n", NL>>

\* The .map callback of csvRows: `${term},${definition}`
CsvRow(card) ==
  EscapeCsvField(card.term) \o <<COMMA>> \o EscapeCsvField(card.definition)

\* currentFlashcards.map(...).join('\n')
CsvRows(cards) == Join[[i \in 1..Len(cards) |-> CsvRow(cards[i])], NL]

\* csvHeader + csvRows
CsvContent(cards) == CsvHeader \o CsvRows(cards)

\* exportCsvButton click: nothing for an empty store, else the CSV file is
\* handed to the browser through a temporary link. A hidden button takes no click.
ExportCsvClick ==
  /\ ~exportHidden
  /\ csvOut' = IF Len(currentFlashcards) = 0 THEN <<>>
               ELSE <<CsvContent(currentFlashcards)>>
  /\ UNCHANGED <<topicInput, errorMessage, genVars, themeVars, fileVars>>

\* -------------------------------------------------------------- generation

\* displayFlashcards
DisplayFlashcards(flashcards) ==
  IF Len(flashcards) > 0
    THEN /\ errorMessage' = MsgNone
         /\ currentFlashcards' = flashcards
         /\ exportHidden' = FALSE
         /\ flashcardsContainer' = flashcards
    ELSE /\ flashcardsContainer' = <<>>
         /\ currentFlashcards' = <<>>
         /\ exportHidden' = TRUE
         /\ errorMessage' = MsgNoValid

\* GenerateClick gone wrong: the control is left enabled during the call.
GenerateClick_NoDisable ==
  /\ ~generateDisabled
  /\ Len(calls) < MaxCalls
  /\ IF Trim(topicInput) = <<>>
       THEN /\ errorMessage' = MsgEnterTopic
            /\ flashcardsContainer' = <<>>
            /\ UNCHANGED <<generateDisabled, exportHidden, currentFlashcards, calls>>
       ELSE /\ errorMessage' = MsgGenerating
            /\ flashcardsContainer' = <<>>
            /\ UNCHANGED generateDisabled
            /\ exportHidden' = TRUE
            /\ currentFlashcards' = <<>>
            /\ calls' = Append(calls, Pending)
  /\ csvOut' = <<>>
  /\ UNCHANGED <<topicInput, themeVars, fileVars>>

\* GenerateClick gone wrong: the store is not cleared when the call is issued.
GenerateClick_KeepStore ==
  /\ ~generateDisabled
  /\ Len(calls) < MaxCalls
  /\ IF Trim(topicInput) = <<>>
       THEN /\ errorMessage' = MsgEnterTopic
            /\ flashcardsContainer' = <<>>
            /\ UNCHANGED <<generateDisabled, exportHidden, currentFlashcards, calls>>
       ELSE /\ errorMessage' = MsgGenerating
            /\ flashcardsContainer' = <<>>
            /\ generateDisabled' = TRUE
            /\ exportHidden' = TRUE
            /\ UNCHANGED currentFlashcards
            /\ calls' = Append(calls, Pending)
  /\ csvOut' = <<>>
  /\ UNCHANGED <<topicInput, themeVars, fileVars>>

\* GenerateClick gone wrong: the export control is not hidden when the call is issued.
GenerateClick_NoHide ==
  /\ ~generateDisabled
  /\ Len(calls) < MaxCalls
  /\ IF Trim(topicInput) = <<>>
       THEN /\ errorMessage' = MsgEnterTopic
            /\ flashcardsContainer' = <<>>
            /\ UNCHANGED <<generateDisabled, exportHidden, currentFlashcards, calls>>
       ELSE /\ errorMessage' = MsgGenerating
            /\ flashcardsContainer' = <<>>
            /\ generateDisabled' = TRUE
            /\ UNCHANGED exportHidden
            /\ currentFlashcards' = <<>>
            /\ calls' = Append(calls, Pending)
  /\ csvOut' = <<>>
  /\ UNCHANGED <<topicInput, themeVars, fileVars>>

\* GenerateClick gone wrong: the topic is not trimmed before the emptiness test.
GenerateClick_NoTrim ==
  /\ ~generateDisabled
  /\ Len(calls) < MaxCalls
  /\ IF topicInput = <<>>
       THEN /\ errorMessage' = MsgEnterTopic
            /\ flashcardsContainer' = <<>>
            /\ UNCHANGED <<generateDisabled, exportHidden, currentFlashcards, calls>>
       ELSE /\ errorMessage' = MsgGenerating
            /\ flashcardsContainer' = <<>>
            /\ generateDisabled' = TRUE
            /\ exportHidden' = TRUE
            /\ currentFlashcards' = <<>>
            /\ calls' = Append(calls, Pending)
  /\ csvOut' = <<>>
  /\ UNCHANGED <<topicInput, themeVars, fileVars>>

\* generateButton click, up to the await. A disabled button takes no click.
GenerateClick ==
  /\ ~generateDisabled
  /\ Len(calls) < MaxCalls
  /\ IF Trim(topicInput) = <<>>
       THEN /\ errorMessage' = MsgEnterTopic
            /\ flashcardsContainer' = <<>>
            /\ UNCHANGED <<generateDisabled, exportHidden, currentFlashcards, calls>>
       ELSE /\ errorMessage' = MsgGenerating
            /\ flashcardsContainer' = <<>>
            /\ generateDisabled' = TRUE
            /\ exportHidden' = TRUE
            /\ currentFlashcards' = <<>>
            /\ calls' = Append(calls, Pending)
  /\ csvOut' = <<>>
  /\ UNCHANGED <<topicInput, themeVars, fileVars>>

\* The generation service answers: with a text, without one, or with an error.
Settle(i) ==
  /\ i \in 1..Len(calls)
  /\ calls[i].state = "pending"
  /\ \/ \E text \in ResponseTexts : calls' = [calls EXCEPT ![i] = Fulfilled(FALSE, text)]
     \/ calls' = [calls EXCEPT ![i] = Fulfilled(TRUE, <<>>)]
     \/ \E message \in ErrorMessages : calls' = [calls EXCEPT ![i] = Rejected(message)]
  /\ csvOut' = <<>>
  /\ UNCHANGED <<topicInput, errorMessage, generateDisabled, flashcardsContainer,
                 exportHidden, currentFlashcards, themeVars, fileVars>>

\* result.text ?? ''
ResponseText(call) == IF call.absent THEN <<>> ELSE call.text

\* GenerateResume gone wrong: an empty text is parsed and displayed like any other.
GenerateResume_NoEmptyCheck(i) ==
  /\ i \in 1..Len(calls)
  /\ calls[i].state # "pending"
  /\ IF calls[i].state = "fulfilled"
       THEN DisplayFlashcards(ParseFlashcards(ResponseText(calls[i])))
       ELSE /\ errorMessage' =
                 MsgError(IF calls[i].message # "" THEN calls[i].message
                          ELSE UnknownError)
            /\ flashcardsContainer' = <<>>
            /\ UNCHANGED <<exportHidden, currentFlashcards>>
  /\ generateDisabled' = FALSE
  /\ calls' = RemoveAt(calls, i)
  /\ csvOut' = <<>>
  /\ UNCHANGED <<topicInput, themeVars, fileVars>>

\* GenerateResume gone wrong: the control is re-enabled at the end of the try
\* body instead of in a finally block, so not when the call threw.
GenerateResume_NoFinally(i) ==
  /\ i \in 1..Len(calls)
  /\ calls[i].state # "pending"
  /\ IF calls[i].state = "fulfilled"
       THEN /\ IF ResponseText(calls[i]) # <<>>
                 THEN DisplayFlashcards(ParseFlashcards(ResponseText(calls[i])))
                 ELSE /\ errorMessage' = MsgFailedEmpty
                      /\ UNCHANGED <<flashcardsContainer, exportHidden, currentFlashcards>>
            /\ generateDisabled' = FALSE
       ELSE /\ errorMessage' =
                 MsgError(IF calls[i].message # "" THEN calls[i].message
                          ELSE UnknownError)
            /\ flashcardsContainer' = <<>>
            /\ UNCHANGED <<exportHidden, currentFlashcards, generateDisabled>>
  /\ calls' = RemoveAt(calls, i)
  /\ csvOut' = <<>>
  /\ UNCHANGED <<topicInput, themeVars, fileVars>>

\* generateButton click, from the await on: try body, catch, finally.
GenerateResume(i) ==
  /\ i \in 1..Len(calls)
  /\ calls[i].state # "pending"
  /\ IF calls[i].state = "fulfilled"
       THEN IF ResponseText(calls[i]) # <<>>
              THEN DisplayFlashcards(ParseFlashcards(ResponseText(calls[i])))
              ELSE /\ errorMessage' = MsgFailedEmpty
                   /\ UNCHANGED <<flashcardsContainer, exportHidden, currentFlashcards>>
       ELSE /\ errorMessage' =
                 MsgError(IF calls[i].message # "" THEN calls[i].message
                          ELSE UnknownError)
            /\ flashcardsContainer' = <<>>
            /\ UNCHANGED <<exportHidden, currentFlashcards>>
  /\ generateDisabled' = FALSE
  /\ calls' = RemoveAt(calls, i)
  /\ csvOut' = <<>>
  /\ UNCHANGED <<topicInput, themeVars, fileVars>>

\* ----------------------------------------------------------- specification

Next ==
  \/ ThemeToggle
  \/ PrefersDarkChange
  \/ TypeTopic
  \/ FileChange
  \/ FileChangeNoFile
  \/ \E i \in 1..MaxImports : ReaderLoad(i)
  \/ \E i \in 1..MaxImports : ReaderError(i)
  \/ \E i \in 1..MaxImports : TimerFire(i)
  \/ ExportCsvClick
  \/ GenerateClick
  \/ \E i \in 1..MaxCalls : Settle(i)
  \/ \E i \in 1..MaxCalls : GenerateResume(i)

Spec == Init /\ [][Next]_vars

\* ParseSpec: the continuation of the handler applied to every response text
\* over ParseAlphabet of at most MaxRawLen characters.
ParseAlphabet == {"a", " ", COLON, NL}

\* A call issued for the topic "a" and answered with the text raw.
AnsweredWith(raw) ==
  /\ topicInput = <<"a">>
  /\ generateDisabled = TRUE
  /\ flashcardsContainer = <<>>
  /\ errorMessage = MsgGenerating
  /\ exportHidden = TRUE
  /\ currentFlashcards = <<>>
  /\ calls = <<Fulfilled(FALSE, raw)>>
  /\ csvOut = <<>>
  /\ readers = <<>>
  /\ timers = <<>>
  /\ prefersDark = FALSE
  /\ currentTheme = NoTheme
  /\ dataTheme = "light"
  /\ storedTheme = "light"
  /\ userToggled = FALSE

ParseInit == \E raw \in TextsUpTo(ParseAlphabet, MaxRawLen) : AnsweredWith(raw)

ParseNext == \E i \in 1..MaxCalls : GenerateResume(i)

ParseSpec == ParseInit /\ [][ParseNext]_vars

\* CsvSpec: every response text over CsvAlphabet of at most MaxCsvRawLen
\* characters is parsed into the store, and the store is exported.
CsvAlphabet == {"a", COMMA, DQUOTE, COLON, NL}

CsvInit == \E raw \in TextsUpTo(CsvAlphabet, MaxCsvRawLen) : AnsweredWith(raw)

CsvNext ==
  \/ \E i \in 1..MaxCalls : GenerateResume(i)
  \/ ExportCsvClick

CsvSpec == CsvInit /\ [][CsvNext]_vars

\* The scheduling the event loop gives: once the awaited promise has settled,
\* the rest of the handler runs.
ResumeSettled == \E i \in 1..MaxCalls : GenerateResume(i)

LiveSpec == Spec /\ WF_vars(ResumeSettled)

\* ------------------------------------------------------------------ claims

\* C1: at most one generation call is outstanding at any time, and the
\* generate control is disabled for as long as one is.
OneOutstandingCall ==
  /\ Len(calls) <= 1
  /\ Len(calls) = 1 => generateDisabled

\* C1 witness: a call is pending while a file import is in progress.
CallPendingDuringImport ==
  /\ Len(calls) = 1
  /\ calls[1].state = "pending"
  /\ generateDisabled
  /\ Len(readers) = 1

\* The positions of the newlines of text.
NewlinesOf(text) == {i \in 1..Len(text) : text[i] = NL}

\* The k-th newline position of text.
NthNewline(text, k) ==
  CHOOSE p \in NewlinesOf(text) : Cardinality({q \in NewlinesOf(text) : q < p}) = k - 1

\* The k-th line of text: what lies between its (k-1)-th and its k-th newline.
LineOf(text, k) ==
  SubSeq(text,
         IF k = 1 THEN 1 ELSE NthNewline(text, k - 1) + 1,
         IF k = Cardinality(NewlinesOf(text)) + 1 THEN Len(text)
         ELSE NthNewline(text, k) - 1)

LinesOf(text) == [k \in 1..(Cardinality(NewlinesOf(text)) + 1) |-> LineOf(text, k)]

BeforeFirstColon(line) == SubSeq(line, 1, IndexOf[line, COLON] - 1)
AfterFirstColon(line) == SubSeq(line, IndexOf[line, COLON] + 1, Len(line))

\* A line that holds a colon with non-blank text on both sides of the first one.
IsCardLine(line) ==
  /\ IndexOf[line, COLON] > 0
  /\ Trim(BeforeFirstColon(line)) # <<>>
  /\ Trim(AfterFirstColon(line)) # <<>>

CardOfLine(line) ==
  Flashcard(Trim(BeforeFirstColon(line)), Trim(AfterFirstColon(line)))

\* One record per card line, in line order.
CardsOf(text) ==
  LET cardLines == SelectSeq(LinesOf(text), IsCardLine)
  IN  [k \in 1..Len(cardLines) |-> CardOfLine(cardLines[k])]

\* C2: for a non-empty response text the parsed list, which the continuation
\* of the handler puts in the store, is one record per line that holds a colon
\* with non-blank text before and after the first colon, in line order, the
\* term being the trimmed text before the first colon and the definition the
\* trimmed text after it, further colons kept.
ParsedAsSpecified ==
  [][\A i \in 1..Len(calls) :
       (GenerateResume(i) /\ calls[i].state = "fulfilled"
          /\ ResponseText(calls[i]) # <<>>)
       => currentFlashcards' = CardsOf(ResponseText(calls[i]))]_vars

\* C2 witness: a parsed store of two cards, one with a colon in its definition.
ParsedTwoCardsWithColon ==
  /\ calls = <<>>
  /\ Len(currentFlashcards) = 2
  /\ \E k \in 1..2 : IndexOf[currentFlashcards[k].definition, COLON] > 0

\* C3: the store holds exactly the cards displayed in the container, in order.
StoreEqualsDisplay == currentFlashcards = flashcardsContainer

\* What C4 says the store is after an attempt whose call settled as call.
StoreAfter(call) ==
  IF call.state = "fulfilled" /\ ResponseText(call) # <<>>
    THEN ParseFlashcards(ResponseText(call))
    ELSE <<>>

\* C4: when an attempt that issued a call completes, the store is the list
\* parsed from its response, and empty when the call threw or gave no text.
StoreFromAttemptAlone ==
  [][\A i \in 1..Len(calls) :
       GenerateResume(i) => currentFlashcards' = StoreAfter(calls[i])]_vars

\* C4 witness: an attempt has completed with two records in the store.
AttemptStoredTwoCards ==
  /\ calls = <<>>
  /\ ~generateDisabled
  /\ Len(currentFlashcards) = 2
  /\ errorMessage = MsgNone

\* C5: an empty or absent response text ends in the 'failed to generate'
\* message, a non-empty text that parses to no record in the 'no valid
\* flashcards' message, and neither message is reported for the other case.
EmptyAndUnparseableDistinct ==
  [][\A i \in 1..Len(calls) :
       (GenerateResume(i) /\ calls[i].state = "fulfilled")
       => LET text == ResponseText(calls[i])
          IN  /\ (errorMessage' = MsgFailedEmpty) <=> (text = <<>>)
              /\ (errorMessage' = MsgNoValid)
                   <=> (text # <<>> /\ ParseFlashcards(text) = <<>>)]_vars

\* C5 witness: an attempt ended with the empty-response message.
EmptyResponseReported ==
  /\ calls = <<>>
  /\ ~generateDisabled
  /\ errorMessage = MsgFailedEmpty

\* C6: a click on the generate control with a blank topic reports the 'please
\* enter a topic' message, issues no call and leaves the control enabled.
BlankTopicReported ==
  [][(GenerateClick /\ Trim(topicInput) = <<>>)
     => /\ errorMessage' = MsgEnterTopic
        /\ calls' = calls
        /\ ~generateDisabled']_vars

\* C6 witness: the message is shown for a whitespace-only topic.
BlankTopicMessageShown ==
  /\ topicInput = <<" ">>
  /\ errorMessage = MsgEnterTopic
  /\ calls = <<>>
  /\ ~generateDisabled

\* The awaited promise of some attempt has settled, with a text or an error.
SomeCallSettled == \E i \in 1..Len(calls) : calls[i].state # "pending"

\* C7: every attempt whose call has settled is eventually followed by a state
\* in which the generate control is enabled again.
SettledLeadsToEnabled == SomeCallSettled ~> ~generateDisabled

\* C7 witness: an attempt whose call threw has ended with the control enabled.
EnabledAfterError ==
  /\ calls = <<>>
  /\ ~generateDisabled
  /\ errorMessage = MsgError("quota exceeded")

\* A field as C8 writes it: wrapped in double quotes, every double quote of
\* it written twice, when it holds a comma, a double quote or a newline.
QuotedBody(field) ==
  LET QuotesBefore(i) == Cardinality({j \in 1..(i - 1) : field[j] = DQUOTE})
      n == Len(field) + QuotesBefore(Len(field) + 1)
  IN  [p \in 1..n |->
         LET src == CHOOSE i \in 1..Len(field) :
                      /\ i + QuotesBefore(i) <= p
                      /\ p <= i + QuotesBefore(i) + (IF field[i] = DQUOTE THEN 1 ELSE 0)
         IN  field[src]]

FieldAsSpecified(field) ==
  IF {DQUOTE, COMMA, NL} \cap {field[i] : i \in 1..Len(field)} # {}
    THEN <<DQUOTE>> \o QuotedBody(field) \o <<DQUOTE>>
    ELSE field

RECURSIVE RowsAsSpecified(_)
RowsAsSpecified(cards) ==
  IF Len(cards) = 0 THEN <<>>
  ELSE (IF Len(cards) = 1 THEN <<>> ELSE RowsAsSpecified(SubSeq(cards, 1, Len(cards) - 1)))
       \o <<NL>> \o FieldAsSpecified(cards[Len(cards)].term) \o <<COMMA>>
       \o FieldAsSpecified(cards[Len(cards)].definition)

\* C8: the exported file is the header line 'Term,Definition' followed by one
\* row per card of the store, in store order, each on a line of its own, with
\* the fields quoted as above.
CsvAsSpecified ==
  csvOut # <<>> =>
    /\ Len(currentFlashcards) > 0
    /\ csvOut[1] = <<"T", "e", "r", "m", COMMA, "D", "e", "f", "i", "n", "i", "t", "i", "o", "n">>
                     \o RowsAsSpecified(currentFlashcards)

\* C8 witness: two cards were exported, with a double quote and a comma in fields.
ExportedQuotedFields ==
  /\ csvOut # <<>>
  /\ Len(currentFlashcards) = 2
  /\ \E k \in 1..2 : IndexOf[currentFlashcards[k].term, DQUOTE] > 0
  /\ \E k \in 1..2 : IndexOf[currentFlashcards[k].definition, COMMA] > 0

\* C9: with no theme persisted at load and the toggle never clicked, the
\* applied theme is the current system preference.
ThemeFollowsSystem ==
  (currentTheme = NoTheme /\ ~userToggled) => dataTheme = SystemTheme(prefersDark)

\* C10: the export control is visible exactly when the store is non-empty, and
\* it is hidden and the store empty while a generation call is in flight.
ExportVisibleIffStore ==
  /\ exportHidden <=> (currentFlashcards = <<>>)
  /\ calls # <<>> => (exportHidden /\ currentFlashcards = <<>>)

\* C10 witness: a call is in flight, the export control hidden.
ExportHiddenInFlight ==
  /\ Len(calls) = 1
  /\ errorMessage = MsgGenerating
  /\ exportHidden

====
